---------------------------- MODULE Spec2Model ----------------------------
(***************************************************************************)
(* CCodeParser (src/my_module/code_processing/c_processor.py): a regular-  *)
(* expression based extractor of file-scope declarations of a C source.    *)
(* A document is a sequence of one-character strings; offsets are 0-based  *)
(* as in Python, so the character at offset i of doc is doc[i + 1].        *)
(***************************************************************************)
EXTENDS Integers, Sequences, FiniteSets, TLC

(***************************************************************************)
(* Character classes of Python's re module, restricted to ASCII.           *)
(***************************************************************************)
Digits == {"0", "1", "2", "3", "4", "5", "6", "7", "8", "9"}

Letters ==
    {"a", "b", "c", "d", "e", "f", "g", "h", "i", "j", "k", "l", "m",
     "n", "o", "p", "q", "r", "s", "t", "u", "v", "w", "x", "y", "z",
     "A", "B", "C", "D", "E", "F", "G", "H", "I", "J", "K", "L", "M",
     "N", "O", "P", "Q", "R", "S", "T", "U", "V", "W", "X", "Y", "Z"}

WordChars == Letters \cup Digits \cup {"_"}

SpaceChars == {" ", "\t", "\n", "\r", "\f"}

(***************************************************************************)
(* Regular expression syntax trees.  Rep(neg, S, min) is the greedy        *)
(* repetition, at least min times, of the character class S (negated when  *)
(* neg): \w+ is Rep(FALSE, WordChars, 1), [^;]+ is Rep(TRUE, {";"}, 1).    *)
(***************************************************************************)
Rep(neg, S, min) == [t |-> "rep", neg |-> neg, s |-> S, min |-> min]
Lit(c)    == [t |-> "lit", c |-> c]
Bol       == [t |-> "bol"]
Eol       == [t |-> "eol"]
Cat(rs)   == [t |-> "cat", rs |-> rs]
Alt(a, b) == [t |-> "alt", a |-> a, b |-> b]
Star(a)   == [t |-> "star", a |-> a]
Opt(a)    == [t |-> "opt", a |-> a]
Grp(n, a) == [t |-> "cat", rs |-> <<[t |-> "open", n |-> n], a, [t |-> "close", n |-> n]>>]
Str(cs)   == [t |-> "cat", rs |-> [j \in 1..Len(cs) |-> Lit(cs[j])]]

NoGroup == <<-1, -1>>
NoCaps  == [n \in 1..5 |-> NoGroup]
NoMatch == [ok |-> FALSE, start |-> -1, end |-> -1, caps |-> NoCaps]

(* the character at offset j belongs to the class *)
InClass(doc, j, neg, S) == (doc[j + 1] \in S) # neg

(* the offset where the run of class characters starting at i stops *)
RunEnd(doc, i, neg, S) ==
    CHOOSE j \in i..Len(doc) :
        /\ j = Len(doc) \/ ~InClass(doc, j, neg, S)
        /\ \A k \in i..(j - 1) : InClass(doc, k, neg, S)

(* ^ at offset i, and $ at offset i *)
AtBol(doc, multiline, i) == i = 0 \/ (multiline /\ doc[i] = "\n")

AtEol(doc, multiline, i) ==
    \/ i = Len(doc)
    \/ i = Len(doc) - 1 /\ doc[i + 1] = "\n"
    \/ multiline /\ i < Len(doc) /\ doc[i + 1] = "\n"

(***************************************************************************)
(* One character of lookahead: FALSE only when the expressions k cannot    *)
(* match at offset i whatever follows.  The matcher uses it to leave out   *)
(* attempts that fail on their first character.                            *)
(***************************************************************************)
RECURSIVE Feasible(_, _, _, _)
Feasible(doc, multiline, k, i) ==
    IF k = <<>> THEN TRUE
    ELSE
      LET h    == Head(k)
          rest == Tail(k)
      IN  CASE h.t = "lit" -> i < Len(doc) /\ doc[i + 1] = h.c
            [] h.t = "rep" ->
                 \/ i < Len(doc) /\ InClass(doc, i, h.neg, h.s)
                 \/ h.min = 0 /\ Feasible(doc, multiline, rest, i)
            [] h.t = "bol" ->
                 AtBol(doc, multiline, i) /\ Feasible(doc, multiline, rest, i)
            [] h.t = "eol" ->
                 AtEol(doc, multiline, i) /\ Feasible(doc, multiline, rest, i)
            [] h.t = "cat" -> Feasible(doc, multiline, h.rs \o rest, i)
            [] h.t = "alt" ->
                 \/ Feasible(doc, multiline, <<h.a>> \o rest, i)
                 \/ Feasible(doc, multiline, <<h.b>> \o rest, i)
            [] h.t \in {"opt", "star"} ->
                 \/ Feasible(doc, multiline, <<h.a>> \o rest, i)
                 \/ Feasible(doc, multiline, rest, i)
            [] h.t \in {"open", "close"} -> Feasible(doc, multiline, rest, i)

(***************************************************************************)
(* Backtracking matcher with the priorities of Python's re: k is the list  *)
(* of expressions still to be matched from offset i; alternatives are      *)
(* tried left to right and repetitions are greedy, giving characters back  *)
(* (GiveBack) until the rest matches.  multiline is the re.MULTILINE flag. *)
(***************************************************************************)
RECURSIVE MatchFrom(_, _, _, _, _)
RECURSIVE GiveBack(_, _, _, _, _)

MatchFrom(doc, multiline, k, i, caps) ==
    IF k = <<>> THEN [ok |-> TRUE, start |-> -1, end |-> i, caps |-> caps]
    ELSE
      LET h    == Head(k)
          rest == Tail(k)
      IN  CASE h.t = "lit" ->
                 IF i < Len(doc) /\ doc[i + 1] = h.c
                 THEN MatchFrom(doc, multiline, rest, i + 1, caps)
                 ELSE NoMatch
            [] h.t = "rep" ->
                 GiveBack(doc, multiline, rest,
                          {e \in (i + h.min)..RunEnd(doc, i, h.neg, h.s) :
                               Feasible(doc, multiline, rest, e)},
                          caps)
            [] h.t = "bol" ->
                 IF AtBol(doc, multiline, i)
                 THEN MatchFrom(doc, multiline, rest, i, caps)
                 ELSE NoMatch
            [] h.t = "eol" ->
                 IF AtEol(doc, multiline, i)
                 THEN MatchFrom(doc, multiline, rest, i, caps)
                 ELSE NoMatch
            [] h.t = "cat" ->
                 MatchFrom(doc, multiline, h.rs \o rest, i, caps)
            [] h.t = "alt" ->
                 LET r == MatchFrom(doc, multiline, <<h.a>> \o rest, i, caps)
                 IN  IF r.ok THEN r
                     ELSE MatchFrom(doc, multiline, <<h.b>> \o rest, i, caps)
            [] h.t = "opt" ->
                 LET r == MatchFrom(doc, multiline, <<h.a>> \o rest, i, caps)
                 IN  IF r.ok THEN r
                     ELSE MatchFrom(doc, multiline, rest, i, caps)
            [] h.t = "star" ->
                 LET r == MatchFrom(doc, multiline, <<h.a, h>> \o rest, i, caps)
                 IN  IF r.ok THEN r
                     ELSE MatchFrom(doc, multiline, rest, i, caps)
            [] h.t = "open" ->
                 MatchFrom(doc, multiline, rest, i,
                           [caps EXCEPT ![h.n] = <<i, -1>>])
            [] h.t = "close" ->
                 MatchFrom(doc, multiline, rest, i,
                           [caps EXCEPT ![h.n] = <<caps[h.n][1], i>>])

(* the rest k matched from the largest of the offsets ends it matches from *)
GiveBack(doc, multiline, k, ends, caps) ==
    IF ends = {} THEN NoMatch
    ELSE LET e == CHOOSE x \in ends : \A y \in ends : y <= x
             r == MatchFrom(doc, multiline, k, e, caps)
         IN  IF r.ok THEN r
             ELSE GiveBack(doc, multiline, k, ends \ {e}, caps)

(* pattern.match(doc, i): the match object, or NoMatch *)
MatchAt(doc, multiline, re, i) ==
    LET r == MatchFrom(doc, multiline, <<re>>, i, NoCaps)
    IN  IF r.ok THEN [r EXCEPT !.start = i] ELSE NoMatch

(* pattern.finditer(doc): the non-overlapping matches, left to right; the  *)
(* search for the next match resumes where the previous one ended.  hits   *)
(* are the offsets at which the pattern matches.                           *)
RECURSIVE FindIterFrom(_, _, _, _, _)
FindIterFrom(doc, multiline, re, hits, i) ==
    LET later == {j \in hits : j >= i}
    IN  IF later = {} THEN <<>>
        ELSE LET j == CHOOSE x \in later : \A y \in later : x <= y
                 m == MatchAt(doc, multiline, re, j)
             IN  <<m>> \o FindIterFrom(doc, multiline, re, hits,
                                       IF m.end > j THEN m.end ELSE j + 1)

FindIter(doc, multiline, re) ==
    FindIterFrom(doc, multiline, re,
                 {j \in 0..Len(doc) : /\ Feasible(doc, multiline, <<re>>, j)
                                      /\ MatchAt(doc, multiline, re, j).ok},
                 0)

(***************************************************************************)
(* Python string helpers used by the extractors.                           *)
(***************************************************************************)
(* doc[s:e] *)
Slice(doc, s, e) == SubSeq(doc, s + 1, e)

(* the elements of a sequence *)
Range(q) == {q[j] : j \in 1..Len(q)}

(* match.group(n): the text of group n, or <<>> when the group did not     *)
(* take part (None and "" are both falsy where the code tests a group)     *)
Group(doc, m, n) ==
    IF m.caps[n][1] < 0 THEN <<>> ELSE Slice(doc, m.caps[n][1], m.caps[n][2])

(* str.strip() *)
RECURSIVE LStrip(_)
LStrip(s) ==
    IF s # <<>> /\ Head(s) \in SpaceChars THEN LStrip(Tail(s)) ELSE s

RECURSIVE RStrip(_)
RStrip(s) ==
    IF s # <<>> /\ s[Len(s)] \in SpaceChars
    THEN RStrip(SubSeq(s, 1, Len(s) - 1)) ELSE s

Strip(s) == RStrip(LStrip(s))

(* str.split(c) for a one-character separator *)
RECURSIVE SplitFrom(_, _, _)
SplitFrom(s, c, acc) ==
    IF s = <<>> THEN <<acc>>
    ELSE IF Head(s) = c THEN <<acc>> \o SplitFrom(Tail(s), c, <<>>)
    ELSE SplitFrom(Tail(s), c, Append(acc, Head(s)))

Split(s, c) == SplitFrom(s, c, <<>>)

(* str.find(sub, from): scans from offset from for sub; -1 when absent *)
RECURSIVE Find(_, _, _)
Find(doc, sub, from) ==
    IF from + Len(sub) > Len(doc) THEN -1
    ELSE IF \A k \in 1..Len(sub) : doc[from + k] = sub[k] THEN from
    ELSE Find(doc, sub, from + 1)

(* re.sub(re, '', s): s with every match of re removed *)
RECURSIVE SubFrom(_, _, _)
SubFrom(s, ms, i) ==
    IF ms = <<>> THEN Slice(s, i, Len(s))
    ELSE Slice(s, i, Head(ms).start) \o SubFrom(s, Tail(ms), Head(ms).end)

Sub(multiline, re, s) == SubFrom(s, FindIter(s, multiline, re), 0)

(***************************************************************************)
(* The patterns compiled by CCodeParser.                                   *)
(***************************************************************************)
\* (\w+\s+)*\w+\s*\([^)]*\)\s*\{
function_pattern ==
    Cat(<<Star(Grp(1, Cat(<<Rep(FALSE, WordChars, 1), Rep(FALSE, SpaceChars, 1)>>))), Rep(FALSE, WordChars, 1), Rep(FALSE, SpaceChars, 0),
          Lit("("), Rep(TRUE, {")"}, 0), Lit(")"), Rep(FALSE, SpaceChars, 0), Lit("{")>>)

\* ^\s*(far\s+)?(\w+)\s+(\w+)(\[\d+\])?\s*=\s*(\{[^}]+\}|[^;]+);
global_pattern ==
    Cat(<<Bol, Rep(FALSE, SpaceChars, 0),
          Opt(Grp(1, Cat(<<Str(<<"f", "a", "r">>), Rep(FALSE, SpaceChars, 1)>>))),
          Grp(2, Rep(FALSE, WordChars, 1)), Rep(FALSE, SpaceChars, 1), Grp(3, Rep(FALSE, WordChars, 1)),
          Opt(Grp(4, Cat(<<Lit("["), Rep(FALSE, Digits, 1), Lit("]")>>))),
          Rep(FALSE, SpaceChars, 0), Lit("="), Rep(FALSE, SpaceChars, 0),
          Grp(5, Alt(Cat(<<Lit("{"), Rep(TRUE, {"}"}, 1), Lit("}")>>),
                     Rep(TRUE, {";"}, 1))),
          Lit(";")>>)

\* ^extern\s+(\w+)\s+(\w+);
extern_pattern ==
    Cat(<<Bol, Str(<<"e", "x", "t", "e", "r", "n">>), Rep(FALSE, SpaceChars, 1),
          Grp(1, Rep(FALSE, WordChars, 1)), Rep(FALSE, SpaceChars, 1), Grp(2, Rep(FALSE, WordChars, 1)), Lit(";")>>)

\* ^#define\s+(\w+)\s+(.+)
macro_pattern ==
    Cat(<<Bol, Str(<<"#", "d", "e", "f", "i", "n", "e">>), Rep(FALSE, SpaceChars, 1),
          Grp(1, Rep(FALSE, WordChars, 1)), Rep(FALSE, SpaceChars, 1), Grp(2, Rep(TRUE, {"\n"}, 1))>>)

\* typedef\s+struct\s*\{([^}]*)\}\s*(\w+);
struct_pattern ==
    Cat(<<Str(<<"t", "y", "p", "e", "d", "e", "f">>), Rep(FALSE, SpaceChars, 1),
          Str(<<"s", "t", "r", "u", "c", "t">>), Rep(FALSE, SpaceChars, 0), Lit("{"),
          Grp(1, Rep(TRUE, {"}"}, 0)), Lit("}"), Rep(FALSE, SpaceChars, 0),
          Grp(2, Rep(FALSE, WordChars, 1)), Lit(";")>>)

\* ^\s*(\w+)\s+(\w+)\s*=\s*(\{[^}]+\});
instance_pattern ==
    Cat(<<Bol, Rep(FALSE, SpaceChars, 0), Grp(1, Rep(FALSE, WordChars, 1)), Rep(FALSE, SpaceChars, 1), Grp(2, Rep(FALSE, WordChars, 1)),
          Rep(FALSE, SpaceChars, 0), Lit("="), Rep(FALSE, SpaceChars, 0),
          Grp(3, Cat(<<Lit("{"), Rep(TRUE, {"}"}, 1), Lit("}")>>)),
          Lit(";")>>)

\* //.*$ (no flags), used on a macro value
macro_comment_pattern == Cat(<<Lit("/"), Lit("/"), Rep(TRUE, {"\n"}, 0), Eol>>)

\* //.* used on a struct field
field_comment_pattern == Cat(<<Lit("/"), Lit("/"), Rep(TRUE, {"\n"}, 0)>>)

(***************************************************************************)
(* _is_global_scope                                                        *)
(***************************************************************************)
(* func_end when the search for the closing starts at offset 0 *)
FuncEndFromZero(content, func_start) ==
    LET e == Find(content, <<"\n", "}">>, 0)
    IN  IF e = -1 THEN Len(content) ELSE e

(* func_end when the -1 of a failed search is kept *)
FuncEndNoDefault(content, func_start) ==
    Find(content, <<"\n", "}">>, func_start)

(* func_end when the search is for the first '}' after func_start *)
FuncEndAtBrace(content, func_start) ==
    LET e == Find(content, <<"}">>, func_start)
    IN  IF e = -1 THEN Len(content) ELSE e

(* func_end of the function match starting at func_start *)
FuncEnd(content, func_start) ==
    LET e == Find(content, <<"\n", "}">>, func_start)
    IN  IF e = -1 THEN Len(content) ELSE e

(* the (func_start, func_end) pairs the loop goes through, in order *)
FunctionSpans(content) ==
    LET functions == FindIter(content, TRUE, function_pattern)
    IN  [j \in 1..Len(functions) |->
           [start |-> functions[j].start,
            end   |-> FuncEnd(content, functions[j].start)]]

(* the test with the start of the span counted as inside *)
InsideFromStart(sp, o) == sp.start <= o /\ o < sp.end

(* if func_start < match.start() < func_end: return False *)
Inside(sp, o) == sp.start < o /\ o < sp.end

RECURSIVE ScopeLoop(_, _, _)
ScopeLoop(spans, j, o) ==
    IF j > Len(spans) THEN TRUE
    ELSE IF Inside(spans[j], o) THEN FALSE
    ELSE ScopeLoop(spans, j + 1, o)

IsGlobalScope(content, o) == ScopeLoop(FunctionSpans(content), 1, o)

(***************************************************************************)
(* The records built by the five extractors from one match.                *)
(***************************************************************************)
(* a record that leaves the array-size suffix out of the name *)
GlobalRecordPlainName(content, m) ==
    [name  |-> Group(content, m, 3),
     type  |-> IF Group(content, m, 1) # <<>>
               THEN <<"f", "a", "r", " ">> \o Group(content, m, 2)
               ELSE Group(content, m, 2),
     value |-> Strip(Group(content, m, 5))]

GlobalRecord(content, m) ==
    LET far        == Group(content, m, 1)
        var_type   == Group(content, m, 2)
        name       == Group(content, m, 3)
        array_size == Group(content, m, 4)
        value      == Group(content, m, 5)
    IN  [name  |-> IF array_size # <<>> THEN name \o array_size ELSE name,
         type  |-> IF far # <<>> THEN <<"f", "a", "r", " ">> \o var_type
                   ELSE var_type,
         value |-> Strip(value)]

ExternRecord(content, m) ==
    [name |-> Group(content, m, 2), type |-> Group(content, m, 1)]

MacroRecord(content, m) ==
    [name  |-> Group(content, m, 1),
     value |-> Strip(Sub(FALSE, macro_comment_pattern, Group(content, m, 2)))]

RECURSIVE FieldList(_)
FieldList(pieces) ==
    IF pieces = <<>> THEN <<>>
    ELSE LET field == Strip(Head(pieces))
         IN  IF field # <<>>
             THEN <<Strip(Sub(FALSE, field_comment_pattern, field))>>
                  \o FieldList(Tail(pieces))
             ELSE FieldList(Tail(pieces))

StructRecord(content, m) ==
    [name   |-> Group(content, m, 2),
     fields |-> FieldList(Split(Group(content, m, 1), ";"))]

InstanceRecord(content, m) ==
    [name  |-> Group(content, m, 2),
     type  |-> Group(content, m, 1),
     value |-> Strip(Group(content, m, 3))]

(***************************************************************************)
(* The files of the model: source lines, and the texts built from them.    *)
(***************************************************************************)
\* int x = 5;
LnGlobalX ==
    <<"i", "n", "t", " ", "x", " ", "=", " ", "5", ";", "\n">>

\* int z = 7
LnGlobalNoSemi ==
    <<"i", "n", "t", " ", "z", " ", "=", " ", "7", "\n">>

\* far int b[4] = {0};
LnFarArray ==
    <<"f", "a", "r", " ", "i", "n", "t", " ", "b", "[", "4", "]", " ", "=", " ", "{", "0", "}", ";", "\n">>

\* void f() {
LnFuncOpen ==
    <<"v", "o", "i", "d", " ", "f", "(", ")", " ", "{", "\n">>

\*   int y = 10;
LnLocalY ==
    <<" ", " ", "i", "n", "t", " ", "y", " ", "=", " ", "1", "0", ";", "\n">>

\* }
LnClose ==
    <<"}", "\n">>

\* int g() { return 1; }
LnOneLineFunc ==
    <<"i", "n", "t", " ", "g", "(", ")", " ", "{", " ", "r", "e", "t", "u", "r", "n", " ", "1", ";", " ", "}", "\n">>

\* #define MAX 100 // limit
LnMacro ==
    <<"#", "d", "e", "f", "i", "n", "e", " ", "M", "A", "X", " ", "1", "0", "0", " ", "/", "/", " ", "l", "i", "m", "i", "t", "\n">>

\* #define FLAG
LnMacroNoValue ==
    <<"#", "d", "e", "f", "i", "n", "e", " ", "F", "L", "A", "G", "\n">>

\* extern int counter;
LnExtern ==
    <<"e", "x", "t", "e", "r", "n", " ", "i", "n", "t", " ", "c", "o", "u", "n", "t", "e", "r", ";", "\n">>

\* typedef struct { int a; float b; } Point;
LnStruct ==
    <<"t", "y", "p", "e", "d", "e", "f", " ", "s", "t", "r", "u", "c", "t", " ", "{", " ", "i", "n", "t", " ", "a", ";", " ", "f", "l", "o", "a", "t", " ", "b", ";", " ", "}", " ", "P", "o", "i", "n", "t", ";", "\n">>

\* Point p = {1, 2};
LnInstance ==
    <<"P", "o", "i", "n", "t", " ", "p", " ", "=", " ", "{", "1", ",", " ", "2", "}", ";", "\n">>

\*   if (c) {
LnIfOpen ==
    <<" ", " ", "i", "f", " ", "(", "c", ")", " ", "{", "\n">>

\*   }
LnIfClose ==
    <<" ", " ", "}", "\n">>

\* typedef struct {
LnStructOpen ==
    <<"t", "y", "p", "e", "d", "e", "f", " ", "s", "t", "r", "u", "c", "t", " ", "{", "\n">>

\*   int a; // first
LnFieldComment ==
    <<" ", " ", "i", "n", "t", " ", "a", ";", " ", "/", "/", " ", "f", "i", "r", "s", "t", "\n">>

\* } Pair;
LnStructClose ==
    <<"}", " ", "P", "a", "i", "r", ";", "\n">>

(* Files[p] is the text of the readable file at path p *)
Files ==
    <<LnGlobalX \o LnFuncOpen \o LnLocalY \o LnClose,
       LnFuncOpen \o LnLocalY \o LnClose \o LnGlobalX,
       <<>>,
       LnFuncOpen \o LnLocalY \o LnClose,
       LnMacro,
       LnExtern,
       LnStruct \o LnInstance,
       LnGlobalNoSemi \o LnGlobalX,
       LnOneLineFunc \o LnGlobalX,
       LnFarArray \o LnMacroNoValue \o LnGlobalX,
       LnFuncOpen \o LnIfOpen \o LnLocalY \o LnIfClose \o LnClose \o LnExtern,
       LnMacro \o LnExtern \o LnStruct \o LnInstance \o LnGlobalX \o LnFuncOpen \o LnLocalY \o LnClose,
       LnStructOpen \o LnFieldComment \o LnStructClose \o LnGlobalX \o LnGlobalX>>

(***************************************************************************)
(* Bounds of the model.                                                    *)
(***************************************************************************)
(* parse_file calls made on the one CCodeParser *)
MaxParses == 2

(* a path with no file behind it: open() raises FileNotFoundError *)
MissingPath == 0

(* a file that is not UTF-8: file.read() raises UnicodeDecodeError *)
UndecodablePath == -1

Paths == (DOMAIN Files) \cup {MissingPath, UndecodablePath}

(* the exception _read_file raises for a path that is not a readable file *)
ReadError(p) ==
    IF p = UndecodablePath THEN "UnicodeDecodeError" ELSE "FileNotFoundError"

Errors == {"FileNotFoundError", "UnicodeDecodeError"}

(***************************************************************************)
(* The matches an extractor keeps, and the five extractors as functions of *)
(* the content.                                                            *)
(***************************************************************************)
(* pattern.finditer(self.content): the candidate matches of an extractor *)
Candidates(doc, re) == FindIter(doc, TRUE, re)

(* the candidates for which _is_global_scope(match) is true *)
GlobalOnly(doc, all) ==
    SelectSeq(all, LAMBDA m : IsGlobalScope(doc, m.start))

GlobalMatches(doc, re) == GlobalOnly(doc, Candidates(doc, re))

Offsets(ms, p) == [j \in 1..Len(ms) |-> [src |-> p, off |-> ms[j].start]]

(* records of the matches with the repeats of an earlier record left out *)
GlobalRecordsDeduplicated(doc, ms) ==
    LET all == [j \in 1..Len(ms) |-> GlobalRecord(doc, ms[j])]
        firsts == {j \in 1..Len(ms) : \A k \in 1..(j - 1) : all[k] # all[j]}
        RECURSIVE Pick(_)
        Pick(j) == IF j > Len(ms) THEN <<>>
                   ELSE (IF j \in firsts THEN <<all[j]>> ELSE <<>>)
                            \o Pick(j + 1)
    IN  Pick(1)

GlobalRecords(doc, ms)   == [j \in 1..Len(ms) |-> GlobalRecord(doc, ms[j])]
ExternRecords(doc, ms)   == [j \in 1..Len(ms) |-> ExternRecord(doc, ms[j])]
MacroRecords(doc, ms)    == [j \in 1..Len(ms) |-> MacroRecord(doc, ms[j])]
StructRecords(doc, ms)   == [j \in 1..Len(ms) |-> StructRecord(doc, ms[j])]
InstanceRecords(doc, ms) == [j \in 1..Len(ms) |-> InstanceRecord(doc, ms[j])]

(* the dict of _create_json_output, as its key/value pairs in order *)
JsonOutput(gv, ev, mc, st, si) ==
    <<<<"global_variables", gv>>, <<"extern_variables", ev>>,
      <<"macros", mc>>, <<"structs", st>>, <<"struct_instances", si>>>>

(***************************************************************************)
(* State of one CCodeParser and of the parse_file call running on it.      *)
(***************************************************************************)
VARIABLES
    content,          \* self.content
    global_vars,      \* self.global_vars
    extern_vars,      \* self.extern_vars
    macros,           \* self.macros
    structs,          \* self.structs
    struct_instances, \* self.struct_instances
    pc,               \* the statement of parse_file to run next, or "idle"
    file_path,        \* the argument of the running (or last) call
    result,           \* what the last call returned or raised
    calls,            \* parse_file calls started so far
    origin,           \* per sequence, the (file, match offset) of each record
    before,           \* the parser's fields when the running call started
    steps,            \* the methods the running call has run
    probe,            \* a direct call of _is_global_scope and its answer
    stub,             \* the last call of a placeholder method and its answer
    extracted,        \* a call of extract_consecutive_elements_within_range
    mapped,           \* a call of map_c_type_to_simulink
    palette,          \* a call of get_color_palette
    pair,             \* two more CCodeParser instances, each in one call
    index_builds      \* function_pattern.finditer runs of the running call

fields == <<content, global_vars, extern_vars, macros, structs, struct_instances>>

vars == <<content, global_vars, extern_vars, macros, structs,
          struct_instances, pc, file_path, result, calls, origin, before,
          steps, probe, stub, extracted, mapped, palette, pair,
          index_builds>>

NoOrigin ==
    [global_variables |-> <<>>, extern_variables |-> <<>>, macros |-> <<>>,
     structs |-> <<>>, struct_instances |-> <<>>]

NoResult == [kind |-> "none", json |-> <<>>]

NoProbe == [o |-> -1, spans |-> <<>>, global |-> FALSE]

NoStub == [name |-> "none", ret |-> <<>>, seen |-> <<>>]

NoExtracted == [called |-> FALSE]

NoMapped == [called |-> FALSE]

NoPalette == [called |-> FALSE]

(* the CCodeParser instances of pair, and one of them as __init__ leaves it; *)
(* overlapped records that a step of its call ran while the other instance  *)
(* was inside a call                                                        *)
Instances == {1, 2}

NewParser ==
    [content |-> <<>>, global_vars |-> <<>>, extern_vars |-> <<>>,
     macros |-> <<>>, structs |-> <<>>, struct_instances |-> <<>>,
     pc |-> "idle", file_path |-> MissingPath, result |-> NoResult,
     overlapped |-> FALSE]

FreshPair == [i \in Instances |-> NewParser]

(* CCodeParser.__init__ *)
Init ==
    /\ content = <<>>
    /\ global_vars = <<>>
    /\ extern_vars = <<>>
    /\ macros = <<>>
    /\ structs = <<>>
    /\ struct_instances = <<>>
    /\ pc = "idle"
    /\ file_path = MissingPath
    /\ result = NoResult
    /\ calls = 0
    /\ origin = NoOrigin
    /\ before = fields
    /\ steps = <<>>
    /\ probe = NoProbe
    /\ stub = NoStub
    /\ extracted = NoExtracted
    /\ mapped = NoMapped
    /\ palette = NoPalette
    /\ pair = FreshPair
    /\ index_builds = 0

(* a caller invokes parse_file(p) *)
parse_file(p) ==
    /\ pc = "idle"
    /\ calls < MaxParses
    /\ pc' = "read"
    /\ file_path' = p
    /\ result' = NoResult
    /\ calls' = calls + 1
    /\ before' = fields
    /\ steps' = <<>>
    /\ stub' = NoStub
    /\ index_builds' = 0
    /\ UNCHANGED <<content, global_vars, extern_vars, macros, structs,
                   struct_instances, origin, probe, extracted, mapped,
                   palette, pair>>

(* _read_file, the file opens and decodes *)
read_file ==
    /\ pc = "read"
    /\ file_path \in DOMAIN Files
    /\ content' = Files[file_path]
    /\ pc' = "globals"
    /\ steps' = Append(steps, "_read_file")
    /\ UNCHANGED <<global_vars, extern_vars, macros, structs,
                   struct_instances, file_path, result, calls, origin, before, probe,
                   stub, extracted, mapped,
                   palette, pair, index_builds>>

(* _read_file whose error is swallowed: parse_file goes on *)
read_file_swallows ==
    /\ pc = "read"
    /\ file_path \notin DOMAIN Files
    /\ pc' = "globals"
    /\ steps' = Append(steps, "_read_file")
    /\ UNCHANGED <<content, global_vars, extern_vars, macros, structs,
                   struct_instances, file_path, result, calls, origin,
                   before, probe,
                   stub, extracted, mapped,
                   palette, pair, index_builds>>

(* _read_file, open() or file.read() raises before self.content is        *)
(* assigned: the exception leaves parse_file                             *)
read_file_raises ==
    /\ pc = "read"
    /\ file_path \notin DOMAIN Files
    /\ pc' = "idle"
    /\ result' = [kind |-> ReadError(file_path), json |-> <<>>]
    /\ steps' = Append(steps, "_read_file")
    /\ UNCHANGED <<content, global_vars, extern_vars, macros, structs,
                   struct_instances, file_path, calls, origin, before, probe,
                   stub, extracted, mapped,
                   palette, pair, index_builds>>

extract_global_variables ==
    /\ pc = "globals"
    /\ LET all == Candidates(content, global_pattern)
           ms == GlobalOnly(content, all)
       IN  /\ index_builds' = index_builds + Len(all)
           /\ global_vars' = global_vars \o GlobalRecords(content, ms)
           /\ origin' = [origin EXCEPT !.global_variables =
                                           @ \o Offsets(ms, file_path)]
    /\ pc' = "externs"
    /\ steps' = Append(steps, "_extract_global_variables")
    /\ UNCHANGED <<content, extern_vars, macros, structs, struct_instances,
                   file_path, result, calls, before, probe,
                   stub, extracted, mapped,
                   palette, pair>>

extract_extern_variables ==
    /\ pc = "externs"
    /\ LET all == Candidates(content, extern_pattern)
           ms == GlobalOnly(content, all)
       IN  /\ index_builds' = index_builds + Len(all)
           /\ extern_vars' = extern_vars \o ExternRecords(content, ms)
           /\ origin' = [origin EXCEPT !.extern_variables =
                                           @ \o Offsets(ms, file_path)]
    /\ pc' = "macros"
    /\ steps' = Append(steps, "_extract_extern_variables")
    /\ UNCHANGED <<content, global_vars, macros, structs, struct_instances,
                   file_path, result, calls, before, probe,
                   stub, extracted, mapped,
                   palette, pair>>

extract_macros ==
    /\ pc = "macros"
    /\ LET all == Candidates(content, macro_pattern)
           ms == GlobalOnly(content, all)
       IN  /\ index_builds' = index_builds + Len(all)
           /\ macros' = macros \o MacroRecords(content, ms)
           /\ origin' = [origin EXCEPT !.macros = @ \o Offsets(ms, file_path)]
    /\ pc' = "structs"
    /\ steps' = Append(steps, "_extract_macros")
    /\ UNCHANGED <<content, global_vars, extern_vars, structs,
                   struct_instances, file_path, result, calls, before, probe,
                   stub, extracted, mapped,
                   palette, pair>>

extract_structs ==
    /\ pc = "structs"
    /\ LET all == Candidates(content, struct_pattern)
           ms == GlobalOnly(content, all)
       IN  /\ index_builds' = index_builds + Len(all)
           /\ structs' = structs \o StructRecords(content, ms)
           /\ origin' = [origin EXCEPT !.structs = @ \o Offsets(ms, file_path)]
    /\ pc' = "instances"
    /\ steps' = Append(steps, "_extract_structs")
    /\ UNCHANGED <<content, global_vars, extern_vars, macros,
                   struct_instances, file_path, result, calls, before, probe,
                   stub, extracted, mapped,
                   palette, pair>>

(* an _extract_struct_instances that also files its records under the      *)
(* global variables                                                        *)
extract_struct_instances_shared ==
    /\ pc = "instances"
    /\ LET all == Candidates(content, instance_pattern)
           ms == GlobalOnly(content, all)
       IN  /\ index_builds' = index_builds + Len(all)
           /\ struct_instances' =
                  struct_instances \o InstanceRecords(content, ms)
           /\ global_vars' = global_vars \o InstanceRecords(content, ms)
           /\ origin' = [origin EXCEPT !.struct_instances =
                                           @ \o Offsets(ms, file_path)]
    /\ pc' = "json"
    /\ steps' = Append(steps, "_extract_struct_instances")
    /\ UNCHANGED <<content, extern_vars, macros, structs,
                   file_path, result, calls, before, probe,
                   stub, extracted, mapped,
                   palette, pair>>

extract_struct_instances ==
    /\ pc = "instances"
    /\ LET all == Candidates(content, instance_pattern)
           ms == GlobalOnly(content, all)
       IN  /\ index_builds' = index_builds + Len(all)
           /\ struct_instances' =
                  struct_instances \o InstanceRecords(content, ms)
           /\ origin' = [origin EXCEPT !.struct_instances =
                                           @ \o Offsets(ms, file_path)]
    /\ pc' = "json"
    /\ steps' = Append(steps, "_extract_struct_instances")
    /\ UNCHANGED <<content, global_vars, extern_vars, macros, structs,
                   file_path, result, calls, before, probe,
                   stub, extracted, mapped,
                   palette, pair>>

(* return self._create_json_output() *)
create_json_output ==
    /\ pc = "json"
    /\ result' = [kind |-> "json",
                  json |-> JsonOutput(global_vars, extern_vars, macros,
                                      structs, struct_instances)]
    /\ pc' = "idle"
    /\ steps' = Append(steps, "_create_json_output")
    /\ UNCHANGED <<content, global_vars, extern_vars, macros, structs,
                   struct_instances, file_path, calls, origin, before, probe,
                   stub, extracted, mapped,
                   palette, pair, index_builds>>

(***************************************************************************)
(* The placeholder methods, called between parse_file calls.  stub keeps   *)
(* the name of the method, what it returned, and the parser's fields as    *)
(* the call found them.                                                    *)
(***************************************************************************)
(* an extract_functions that lists the function-like constructs *)
extract_functions_scans ==
    /\ pc = "idle"
    /\ stub' = [name |-> "extract_functions",
                ret  |-> FunctionSpans(content),
                seen |-> fields]
    /\ UNCHANGED <<content, global_vars, extern_vars, macros, structs,
                   struct_instances, pc, file_path, result, calls, origin,
                   before, steps, probe, extracted, mapped,
                   palette, pair, index_builds>>

extract_functions ==
    /\ pc = "idle"
    /\ stub' = [name |-> "extract_functions", ret |-> <<>>, seen |-> fields]
    /\ UNCHANGED <<content, global_vars, extern_vars, macros, structs,
                   struct_instances, pc, file_path, result, calls, origin,
                   before, steps, probe, extracted, mapped,
                   palette, pair, index_builds>>

extract_enums ==
    /\ pc = "idle"
    /\ stub' = [name |-> "extract_enums", ret |-> <<>>, seen |-> fields]
    /\ UNCHANGED <<content, global_vars, extern_vars, macros, structs,
                   struct_instances, pc, file_path, result, calls, origin,
                   before, steps, probe, extracted, mapped,
                   palette, pair, index_builds>>

extract_typedefs ==
    /\ pc = "idle"
    /\ stub' = [name |-> "extract_typedefs", ret |-> <<>>, seen |-> fields]
    /\ UNCHANGED <<content, global_vars, extern_vars, macros, structs,
                   struct_instances, pc, file_path, result, calls, origin,
                   before, steps, probe, extracted, mapped,
                   palette, pair, index_builds>>

Next ==
    \/ \E p \in Paths : parse_file(p)
    \/ read_file
    \/ read_file_raises
    \/ extract_global_variables
    \/ extract_extern_variables
    \/ extract_macros
    \/ extract_structs
    \/ extract_struct_instances
    \/ create_json_output
    \/ extract_functions
    \/ extract_enums
    \/ extract_typedefs

Spec == Init /\ [][Next]_vars

(***************************************************************************)
(* The methods of parse_file called one by one by a caller, the five       *)
(* extractors in an order of its choice: _read_file first, each extractor  *)
(* once, _create_json_output last.  pc is the method the caller runs       *)
(* next.                                                                   *)
(***************************************************************************)
MaxRuns == 2

(* a file with a struct and an instance of it, which is a global variable  *)
(* too, and a file with a function, a nested block and an extern           *)
OrderPaths == {7, 11}

LabelOf ==
    [globals   |-> "_extract_global_variables",
     externs   |-> "_extract_extern_variables",
     macros    |-> "_extract_macros",
     structs   |-> "_extract_structs",
     instances |-> "_extract_struct_instances"]

HasRun(label) == LabelOf[label] \in Range(steps)

(* the caller is about to call _read_file(p) *)
run_by_hand(p) ==
    /\ pc = "idle"
    /\ calls < MaxRuns
    /\ pc' = "read"
    /\ file_path' = p
    /\ result' = NoResult
    /\ calls' = calls + 1
    /\ before' = fields
    /\ steps' = <<>>
    /\ stub' = NoStub
    /\ index_builds' = 0
    /\ UNCHANGED <<content, global_vars, extern_vars, macros, structs,
                   struct_instances, origin, probe, extracted, mapped,
                   palette, pair>>

(* the caller chooses the extractor to call next among those it has not    *)
(* called, or _create_json_output once it has called all five              *)
pick(label) ==
    /\ pc \in (DOMAIN LabelOf) \cup {"json"}
    /\ pc # label
    /\ IF label = "json" THEN \A l \in DOMAIN LabelOf : HasRun(l)
                         ELSE ~HasRun(label)
    /\ pc' = label
    /\ UNCHANGED <<content, global_vars, extern_vars, macros, structs,
                   struct_instances, file_path, result, calls, origin,
                   before, steps, probe, stub, extracted, mapped,
                   palette, pair, index_builds>>

NextOrder ==
    \/ \E p \in OrderPaths : run_by_hand(p)
    \/ read_file
    \/ \E label \in (DOMAIN LabelOf) \cup {"json"} : pick(label)
    \/ ~HasRun("globals") /\ extract_global_variables
    \/ ~HasRun("externs") /\ extract_extern_variables
    \/ ~HasRun("macros") /\ extract_macros
    \/ ~HasRun("structs") /\ extract_structs
    \/ ~HasRun("instances") /\ extract_struct_instances
    \/ (\A l \in DOMAIN LabelOf : HasRun(l)) /\ create_json_output

SpecOrder == Init /\ [][NextOrder]_vars

(* what a freshly constructed CCodeParser returns for the text doc *)
FreshJson(doc) ==
    JsonOutput(GlobalRecords(doc, GlobalMatches(doc, global_pattern)),
               ExternRecords(doc, GlobalMatches(doc, extern_pattern)),
               MacroRecords(doc, GlobalMatches(doc, macro_pattern)),
               StructRecords(doc, GlobalMatches(doc, struct_pattern)),
               InstanceRecords(doc, GlobalMatches(doc, instance_pattern)))

(***************************************************************************)
(* _is_global_scope as a function of the content and of the offset of the  *)
(* match it is given: SpecScope calls it on every offset of every text     *)
(* made of at most MaxTokens of the pieces below.                          *)
(***************************************************************************)
MaxTokens == 4

Tokens ==
    {<<"f", "(">>, <<")", "{">>, <<"\n", "}">>, <<"\n">>, <<"}">>, <<"x">>,
     <<" ">>}

RECURSIVE Texts(_)
Texts(n) ==
    IF n = 0 THEN {<<>>}
    ELSE LET shorter == Texts(n - 1)
         IN  shorter \cup {u \o t : u \in shorter, t \in Tokens}

InitScope ==
    /\ content \in Texts(MaxTokens)
    /\ global_vars = <<>>
    /\ extern_vars = <<>>
    /\ macros = <<>>
    /\ structs = <<>>
    /\ struct_instances = <<>>
    /\ pc = "idle"
    /\ file_path = MissingPath
    /\ result = NoResult
    /\ calls = 0
    /\ origin = NoOrigin
    /\ before = fields
    /\ steps = <<>>
    /\ probe = NoProbe
    /\ stub = NoStub
    /\ extracted = NoExtracted
    /\ mapped = NoMapped
    /\ palette = NoPalette
    /\ pair = FreshPair
    /\ index_builds = 0

(* self._is_global_scope(match) with match.start() = o; the method reads   *)
(* the content only, so one call per text shows all it can do             *)
is_global_scope(o) ==
    /\ probe = NoProbe
    /\ probe' = [o      |-> o,
                 spans  |-> FunctionSpans(content),
                 global |-> IsGlobalScope(content, o)]
    /\ UNCHANGED <<content, global_vars, extern_vars, macros, structs,
                   struct_instances, pc, file_path, result, calls, origin,
                   before, steps,
                   stub, extracted, mapped,
                   palette, pair, index_builds>>

NextScope == \E o \in 0..Len(content) : is_global_scope(o)

SpecScope == InitScope /\ [][NextScope]_vars

(***************************************************************************)
(* extract_consecutive_elements_within_range(array, lower_bound,           *)
(* upper_bound) of data_utils/array_operations.py.  An argument is a       *)
(* record: nd tells whether array is a numpy.ndarray (data holds its       *)
(* elements), num whether a bound is an int or a float (v holds it).       *)
(* Indices are Python's, from 0.                                           *)
(***************************************************************************)
MaxLen == 4

Elements == 0..2

RECURSIVE Arrays(_)
Arrays(n) ==
    IF n = 0 THEN {<<>>}
    ELSE LET shorter == Arrays(n - 1)
         IN  shorter \cup {Append(a, x) : a \in shorter, x \in Elements}

ArrayArgs ==
    {[nd |-> TRUE, data |-> a] : a \in Arrays(MaxLen)}
        \cup {[nd |-> FALSE, data |-> <<1>>]}

BoundArgs ==
    {[num |-> TRUE, v |-> b] : b \in Elements} \cup {[num |-> FALSE, v |-> 0]}

(* mask = (array >= lower_bound) & (array <= upper_bound) *)
Mask(array, lower_bound, upper_bound) ==
    [j \in 1..Len(array) |->
        array[j] >= lower_bound /\ array[j] <= upper_bound]

(* np.diff(mask.astype(int)) *)
AsInt(b) == IF b THEN 1 ELSE 0

Diff(mask) ==
    [j \in 1..(IF Len(mask) = 0 THEN 0 ELSE Len(mask) - 1) |->
        AsInt(mask[j + 1]) - AsInt(mask[j])]

(* np.where(diff == v)[0] + 1 *)
RECURSIVE WhereFrom(_, _, _)
WhereFrom(diff, v, j) ==
    IF j > Len(diff) THEN <<>>
    ELSE (IF diff[j] = v THEN <<(j - 1) + 1>> ELSE <<>>)
             \o WhereFrom(diff, v, j + 1)

WherePlusOne(diff, v) == WhereFrom(diff, v, 1)

(* [array[start:end] for start, end in zip(starts, ends)] *)
Min2(a, b) == IF a <= b THEN a ELSE b

Subarrays(array, starts, ends) ==
    [j \in 1..Min2(Len(starts), Len(ends)) |-> Slice(array, starts[j], ends[j])]

(* what the call returns or raises, from the first check to the return *)
ExtractConsecutive(array, lower_bound, upper_bound) ==
    IF ~array.nd \/ ~lower_bound.num \/ ~upper_bound.num
    THEN [kind |-> "TypeError", ret |-> <<>>]
    ELSE IF lower_bound.v > upper_bound.v
    THEN [kind |-> "ValueError", ret |-> <<>>]
    ELSE LET mask   == Mask(array.data, lower_bound.v, upper_bound.v)
             diff   == Diff(mask)
             starts == WherePlusOne(diff, 1)
             ends   == WherePlusOne(diff, -1)
         IN  IF Len(mask) = 0
             THEN [kind |-> "IndexError", ret |-> <<>>]
             ELSE [kind |-> "list",
                   ret  |-> Subarrays(
                       array.data,
                       IF mask[1] THEN <<0>> \o starts ELSE starts,
                       IF mask[Len(mask)] THEN Append(ends, Len(mask))
                                          ELSE ends)]

extract_consecutive_elements_within_range(array, lower_bound, upper_bound) ==
    /\ ~extracted.called
    /\ extracted' =
           [called |-> TRUE, array |-> array, lower_bound |-> lower_bound,
            upper_bound |-> upper_bound,
            out |-> ExtractConsecutive(array, lower_bound, upper_bound)]
    /\ UNCHANGED <<content, global_vars, extern_vars, macros, structs,
                   struct_instances, pc, file_path, result, calls, origin,
                   before, steps, probe, stub, mapped,
                   palette, pair, index_builds>>

NextArray ==
    \E array \in ArrayArgs : \E lower_bound, upper_bound \in BoundArgs :
        extract_consecutive_elements_within_range(array, lower_bound,
                                                  upper_bound)

SpecArray == Init /\ [][NextArray]_vars

(***************************************************************************)
(* map_c_type_to_simulink(c_type) of format_converters.py.  The argument   *)
(* is a record: str tells whether it is a Python str, text holds its       *)
(* characters.                                                             *)
(***************************************************************************)
MaxPieces == 4

TypePieces ==
    {<<" ">>, <<"u", "8">>, <<"U", "8">>, <<"I", "n", "t">>,
     <<"l", "o", "n", "g">>, <<"x">>}

RECURSIVE TypeTexts(_)
TypeTexts(n) ==
    IF n = 0 THEN {<<>>}
    ELSE LET shorter == TypeTexts(n - 1)
         IN  shorter \cup {u \o t : u \in shorter, t \in TypePieces}

TypeArgs ==
    {[str |-> TRUE, text |-> t] : t \in TypeTexts(MaxPieces)}
        \cup {[str |-> FALSE, text |-> <<>>]}

(* the dict type_mapping, as its key/value pairs *)
type_mapping ==
    {<<<<"u", "8">>, <<"u", "i", "n", "t", "8">>>>,
     <<<<"s", "8">>, <<"i", "n", "t", "8">>>>,
     <<<<"u", "1", "6">>, <<"u", "i", "n", "t", "1", "6">>>>,
     <<<<"s", "1", "6">>, <<"i", "n", "t", "1", "6">>>>,
     <<<<"u", "3", "2">>, <<"u", "i", "n", "t", "3", "2">>>>,
     <<<<"s", "3", "2">>, <<"i", "n", "t", "3", "2">>>>,
     <<<<"u", "6", "4">>, <<"u", "i", "n", "t", "6", "4">>>>,
     <<<<"s", "6", "4">>, <<"i", "n", "t", "6", "4">>>>,
     <<<<"f", "3", "2">>, <<"s", "i", "n", "g", "l", "e">>>>,
     <<<<"f", "6", "4">>, <<"d", "o", "u", "b", "l", "e">>>>,
     <<<<"b", "o", "o", "l">>, <<"b", "o", "o", "l", "e", "a", "n">>>>,
     <<<<"c", "h", "a", "r">>, <<"i", "n", "t", "8">>>>,
     <<<<"s", "h", "o", "r", "t">>, <<"i", "n", "t", "1", "6">>>>,
     <<<<"i", "n", "t">>, <<"i", "n", "t", "3", "2">>>>,
     <<<<"l", "o", "n", "g">>, <<"i", "n", "t", "3", "2">>>>,
     <<<<"l", "o", "n", "g", " ", "l", "o", "n", "g">>, <<"i", "n", "t", "6", "4">>>>,
     <<<<"f", "l", "o", "a", "t">>, <<"s", "i", "n", "g", "l", "e">>>>,
     <<<<"d", "o", "u", "b", "l", "e">>, <<"d", "o", "u", "b", "l", "e">>>>}

MappingKeys == {kv[1] : kv \in type_mapping}

Lookup(key) == (CHOOSE kv \in type_mapping : kv[1] = key)[2]

(* str.lower() *)
UpperCase == <<"A", "B", "C", "D", "E", "F", "G", "H", "I", "J", "K", "L", "M", "N", "O", "P", "Q", "R", "S", "T", "U", "V", "W", "X", "Y", "Z">>

LowerCase == <<"a", "b", "c", "d", "e", "f", "g", "h", "i", "j", "k", "l", "m", "n", "o", "p", "q", "r", "s", "t", "u", "v", "w", "x", "y", "z">>

LowerChar(c) ==
    IF \E j \in 1..Len(UpperCase) : UpperCase[j] = c
    THEN LowerCase[CHOOSE j \in 1..Len(UpperCase) : UpperCase[j] = c]
    ELSE c

Lower(s) == [j \in 1..Len(s) |-> LowerChar(s[j])]

(* a mapping that hands back the normalised text of a type it does not know *)
MapCTypeReturnsNormalised(c_type) ==
    IF ~c_type.str THEN [kind |-> "TypeError", ret |-> <<>>, warned |-> FALSE]
    ELSE LET c_type_lower == Lower(Strip(c_type.text))
         IN  IF c_type_lower \notin MappingKeys
             THEN [kind |-> "return", ret |-> c_type_lower, warned |-> TRUE]
             ELSE [kind |-> "return", ret |-> Lookup(c_type_lower),
                   warned |-> FALSE]

(* what the call returns or raises, and whether it warned *)
MapCTypeToSimulink(c_type) ==
    IF ~c_type.str THEN [kind |-> "TypeError", ret |-> <<>>, warned |-> FALSE]
    ELSE LET c_type_lower == Lower(Strip(c_type.text))
         IN  IF c_type_lower \notin MappingKeys
             THEN [kind |-> "return", ret |-> c_type.text, warned |-> TRUE]
             ELSE [kind |-> "return", ret |-> Lookup(c_type_lower),
                   warned |-> FALSE]

map_c_type_to_simulink(c_type) ==
    /\ ~mapped.called
    /\ mapped' = [called |-> TRUE, c_type |-> c_type,
                  out |-> MapCTypeToSimulink(c_type)]
    /\ UNCHANGED <<content, global_vars, extern_vars, macros, structs,
                   struct_instances, pc, file_path, result, calls, origin,
                   before, steps, probe, stub, extracted,
                   palette, pair, index_builds>>

NextType == \E c_type \in TypeArgs : map_c_type_to_simulink(c_type)

SpecType == Init /\ [][NextType]_vars

(***************************************************************************)
(* Two CCodeParser instances, each making one parse_file call on a file of *)
(* its own; the steps of the two calls interleave.                         *)
(***************************************************************************)
(* PairFiles[p] is the text of the file at path p the two parsers may read *)
PairFiles ==
    <<LnStruct \o LnInstance,
      LnFuncOpen \o LnLocalY \o LnClose \o LnGlobalX,
      LnGlobalNoSemi \o LnInstance,
      LnMacro \o LnExtern>>

PairPaths == DOMAIN PairFiles

Other(i) == CHOOSE j \in Instances : j # i

(* the variables of the one parser and of the other functions *)
others ==
    <<content, global_vars, extern_vars, macros, structs,
      struct_instances, pc, file_path, result, calls, origin,
      before, steps, probe, stub, extracted, mapped, palette,
      index_builds>>

(* instance i becomes r; the other instance is left as it is *)
StepOf(i, r) ==
    pair' = [pair EXCEPT ![i] =
                 [r EXCEPT !.overlapped = @ \/ pair[Other(i)].pc # "idle"]]

(* parser_i.parse_file(p), up to the call of _read_file *)
parse_file_on(i, p) ==
    /\ pair[i].pc = "idle"
    /\ pair[i].result = NoResult
    /\ pair[Other(i)].file_path # p
    /\ StepOf(i, [pair[i] EXCEPT !.pc = "read", !.file_path = p])
    /\ UNCHANGED others

(* a _read_file that keeps the text in an attribute of the class *)
read_file_on_class(i) ==
    /\ pair[i].pc = "read"
    /\ pair' = [j \in Instances |->
                   IF j = i
                   THEN [pair[j] EXCEPT !.content = PairFiles[pair[i].file_path],
                                        !.pc = "globals",
                                        !.overlapped =
                                            @ \/ pair[Other(i)].pc # "idle"]
                   ELSE [pair[j] EXCEPT !.content = PairFiles[pair[i].file_path]]]
    /\ UNCHANGED others

(* self.content = file.read() *)
read_file_on(i) ==
    /\ pair[i].pc = "read"
    /\ StepOf(i, [pair[i] EXCEPT !.content = PairFiles[pair[i].file_path],
                                 !.pc = "globals"])
    /\ UNCHANGED others

extract_global_variables_on(i) ==
    /\ pair[i].pc = "globals"
    /\ LET doc == pair[i].content
           ms  == GlobalMatches(doc, global_pattern)
       IN  StepOf(i, [pair[i] EXCEPT !.global_vars = @ \o GlobalRecords(doc, ms),
                                     !.pc = "externs"])
    /\ UNCHANGED others

extract_extern_variables_on(i) ==
    /\ pair[i].pc = "externs"
    /\ LET doc == pair[i].content
           ms  == GlobalMatches(doc, extern_pattern)
       IN  StepOf(i, [pair[i] EXCEPT !.extern_vars = @ \o ExternRecords(doc, ms),
                                     !.pc = "macros"])
    /\ UNCHANGED others

extract_macros_on(i) ==
    /\ pair[i].pc = "macros"
    /\ LET doc == pair[i].content
           ms  == GlobalMatches(doc, macro_pattern)
       IN  StepOf(i, [pair[i] EXCEPT !.macros = @ \o MacroRecords(doc, ms),
                                     !.pc = "structs"])
    /\ UNCHANGED others

extract_structs_on(i) ==
    /\ pair[i].pc = "structs"
    /\ LET doc == pair[i].content
           ms  == GlobalMatches(doc, struct_pattern)
       IN  StepOf(i, [pair[i] EXCEPT !.structs = @ \o StructRecords(doc, ms),
                                     !.pc = "instances"])
    /\ UNCHANGED others

extract_struct_instances_on(i) ==
    /\ pair[i].pc = "instances"
    /\ LET doc == pair[i].content
           ms  == GlobalMatches(doc, instance_pattern)
       IN  StepOf(i, [pair[i] EXCEPT !.struct_instances = @ \o InstanceRecords(doc, ms),
                                     !.pc = "json"])
    /\ UNCHANGED others

create_json_output_on(i) ==
    /\ pair[i].pc = "json"
    /\ StepOf(i, [pair[i] EXCEPT
           !.result = [kind |-> "json",
                       json |-> JsonOutput(pair[i].global_vars,
                                           pair[i].extern_vars,
                                           pair[i].macros, pair[i].structs,
                                           pair[i].struct_instances)],
           !.pc = "idle"])
    /\ UNCHANGED others

NextPair ==
    \E i \in Instances :
        \/ \E p \in PairPaths : parse_file_on(i, p)
        \/ read_file_on(i)
        \/ extract_global_variables_on(i)
        \/ extract_extern_variables_on(i)
        \/ extract_macros_on(i)
        \/ extract_structs_on(i)
        \/ extract_struct_instances_on(i)
        \/ create_json_output_on(i)

SpecPair == Init /\ [][NextPair]_vars

(***************************************************************************)
(* get_color_palette(num_curves) of visualization/utils.py.                *)
(***************************************************************************)
MaxCurves == 120

(* the predefined colors, in the order of the list *)
colors ==
    <<"#FF5733", "#33FF57", "#5733FF", "#FFD700",
      "#00BFFF", "#FF4500", "#A9A9A9", "#6B8E23",
      "#8B4513", "#4682B4", "#BC8F8F", "#D3D3D3",
      "#FF1493", "#00FFFF", "#1E90FF", "#FF6347",
      "#7FFF00", "#FF00FF", "#FF6347", "#708090",
      "#00FF00", "#CD853F", "#F0E68C", "#FAFAD2",
      "#E6E6FA", "#F5DEB3", "#BC8F8F", "#778899">>

(* [colors[i % len(colors)] for i in range(num_curves)] *)
GetColorPalette(num_curves) ==
    [j \in 1..num_curves |-> colors[((j - 1) % Len(colors)) + 1]]

get_color_palette(num_curves) ==
    /\ ~palette.called
    /\ palette' = [called |-> TRUE, num_curves |-> num_curves,
                   ret |-> GetColorPalette(num_curves)]
    /\ UNCHANGED <<content, global_vars, extern_vars, macros, structs,
                   struct_instances, pc, file_path, result, calls, origin,
                   before, steps, probe, stub, extracted, mapped, pair,
                   index_builds>>

NextPalette == \E num_curves \in 0..MaxCurves : get_color_palette(num_curves)

SpecPalette == Init /\ [][NextPalette]_vars

(***************************************************************************)
(* Vocabulary of the properties.                                           *)
(***************************************************************************)
Categories ==
    {"global_variables", "extern_variables", "macros", "structs",
     "struct_instances"}

(* the parser's five sequences, by the key they are output under *)
Sequences5 ==
    [global_variables |-> global_vars, extern_variables |-> extern_vars,
     macros |-> macros, structs |-> structs,
     struct_instances |-> struct_instances]

PatternOf ==
    [global_variables |-> global_pattern, extern_variables |-> extern_pattern,
     macros |-> macro_pattern, structs |-> struct_pattern,
     struct_instances |-> instance_pattern]

(* the last parse_file call has returned its JSON *)
Returned == pc = "idle" /\ result.kind = "json"

(* the function spans detected in the file at path p *)
SpansOfFile(p) == FunctionSpans(Files[p])

(* offset o lies strictly inside one of the spans *)
StrictlyInside(spans, o) ==
    \E j \in 1..Len(spans) : spans[j].start < o /\ o < spans[j].end

(***************************************************************************)
(* C1: once parse_file has returned, every record of the five sequences    *)
(* was produced by a match of the parsed document, the file of that call,  *)
(* whose start offset lies strictly inside no function span detected in    *)
(* that document.                                                          *)
(***************************************************************************)
C1_RecordsOutsideSpans ==
    Returned =>
      /\ \A c \in Categories : Len(origin[c]) = Len(Sequences5[c])
      /\ \A c \in Categories : \A i \in 1..Len(origin[c]) :
           /\ origin[c][i].src = file_path
           /\ MatchAt(content, TRUE, PatternOf[c], origin[c][i].off).ok
           /\ ~StrictlyInside(FunctionSpans(content), origin[c][i].off)

(***************************************************************************)
(* What the scope test does ensure, in every state: each record has a      *)
(* match behind it, in the file it was read from, whose start offset lies  *)
(* strictly inside no function span detected in that file.                 *)
(***************************************************************************)
RecordsOutsideSpansOfOwnFile ==
    /\ \A c \in Categories : Len(origin[c]) = Len(Sequences5[c])
    /\ \A p \in DOMAIN Files :
         LET spans == SpansOfFile(p)
         IN  \A c \in Categories : \A i \in 1..Len(origin[c]) :
               origin[c][i].src = p =>
                 /\ MatchAt(Files[p], TRUE, PatternOf[c], origin[c][i].off).ok
                 /\ ~StrictlyInside(spans, origin[c][i].off)

(***************************************************************************)
(* C2: whatever was parsed before on the same CCodeParser, parse_file      *)
(* returns for a file exactly the JSON a freshly constructed CCodeParser   *)
(* returns for it.                                                         *)
(***************************************************************************)
C2_SameAsFreshParser ==
    Returned => result.json = FreshJson(Files[file_path])

(***************************************************************************)
(* C3 (as stated): _is_global_scope answers True exactly when no detected  *)
(* span has start < o < end, and an offset equal to the start or the end   *)
(* of a span is always answered True.                                      *)
(***************************************************************************)
C3_BoundaryAlwaysGlobal ==
    probe.o >= 0 =>
      /\ probe.global <=> ~StrictlyInside(probe.spans, probe.o)
      /\ \A j \in 1..Len(probe.spans) :
           probe.o \in {probe.spans[j].start, probe.spans[j].end}
             => probe.global

(***************************************************************************)
(* C3 (amended): _is_global_scope answers True exactly when no detected    *)
(* span has start < o < end; an offset equal to the start or the end of a  *)
(* span is not made local by that span, and is answered True unless it     *)
(* lies strictly inside another span.                                      *)
(***************************************************************************)
C3_GlobalIffInNoSpan ==
    probe.o >= 0 =>
      /\ probe.global <=> ~StrictlyInside(probe.spans, probe.o)
      /\ \A j \in 1..Len(probe.spans) :
           /\ probe.o \in {probe.spans[j].start, probe.spans[j].end}
           /\ \A k \in 1..Len(probe.spans) :
                k # j => ~(probe.spans[k].start < probe.o
                           /\ probe.o < probe.spans[k].end)
           => probe.global

(* an offset equal to the start of a span was answered True *)
C3_Witness ==
    /\ probe.global
    /\ \E j \in 1..Len(probe.spans) : probe.o = probe.spans[j].start

(***************************************************************************)
(* C4: a file holding `int x = 5;` at file scope and `int y = 10;` on its  *)
(* own line in the body of a function whose closing brace starts a line    *)
(* yields exactly the one record {name x, type int, value 5} in            *)
(* global_variables; and no record of global_variables comes from a match  *)
(* of the returned call's file strictly inside a function span.            *)
(***************************************************************************)
ScenarioPaths ==
    {p \in DOMAIN Files :
        Files[p] \in {LnGlobalX \o LnFuncOpen \o LnLocalY \o LnClose,
                      LnFuncOpen \o LnLocalY \o LnClose \o LnGlobalX}}

C4_LocalNeverReported ==
    Returned =>
      /\ file_path \in ScenarioPaths =>
           result.json[1][2] =
               <<[name |-> <<"x">>, type |-> <<"i", "n", "t">>,
                  value |-> <<"5">>]>>
      /\ \A i \in 1..Len(origin.global_variables) :
           origin.global_variables[i].src = file_path =>
             ~StrictlyInside(FunctionSpans(content),
                             origin.global_variables[i].off)

(***************************************************************************)
(* C5: after any parse_file call, in each of the five sequences the start  *)
(* offsets of the matches behind the records are strictly increasing.      *)
(***************************************************************************)
C5_OffsetsIncrease ==
    Returned =>
      \A c \in Categories : \A i, j \in 1..Len(origin[c]) :
        i < j => origin[c][i].off < origin[c][j].off

(***************************************************************************)
(* C6: the end of the span of a function match starting at s is the offset *)
(* of the first newline + '}' at or after s, and the length of the         *)
(* document when there is none.                                            *)
(***************************************************************************)
ClosingAt(doc, k) == k + 2 <= Len(doc) /\ doc[k + 1] = "\n" /\ doc[k + 2] = "}"

C6_SpanEndsAtFirstClosing ==
    \A j \in 1..Len(probe.spans) :
      LET s == probe.spans[j].start
          e == probe.spans[j].end
      IN  IF \E k \in s..Len(content) : ClosingAt(content, k)
          THEN /\ e >= s
               /\ ClosingAt(content, e)
               /\ \A k \in s..(e - 1) : ~ClosingAt(content, k)
          ELSE e = Len(content)

(* a span that ends at a newline + '}' although an earlier one precedes    *)
(* the function                                                            *)
C6_Witness ==
    \E j \in 1..Len(probe.spans) :
      /\ probe.spans[j].end < Len(content)
      /\ \E k \in 0..(probe.spans[j].start - 1) : ClosingAt(content, k)

(***************************************************************************)
(* C7: every function span satisfies 0 <= start < end <= len(document).    *)
(***************************************************************************)
C7_SpanWellFormed ==
    \A j \in 1..Len(probe.spans) :
      /\ 0 <= probe.spans[j].start
      /\ probe.spans[j].start < probe.spans[j].end
      /\ probe.spans[j].end <= Len(content)

(* a span of a function with no newline + '}' after it, in a text that has *)
(* one before it                                                           *)
C7_Witness ==
    \E j \in 1..Len(probe.spans) :
      /\ probe.spans[j].end = Len(content)
      /\ \E k \in 0..(probe.spans[j].start - 1) : ClosingAt(content, k)

(***************************************************************************)
(* C8: when the file cannot be opened or decoded, parse_file raises the    *)
(* error of its one _read_file attempt, runs no extractor, returns no      *)
(* JSON, and leaves the content and the five sequences as they were.       *)
(***************************************************************************)
C8_FailedReadChangesNothing ==
    (calls > 0 /\ file_path \notin DOMAIN Files) =>
      /\ pc \in {"read", "idle"}
      /\ fields = before
      /\ pc = "idle" =>
           /\ result = [kind |-> ReadError(file_path), json |-> <<>>]
           /\ steps = <<"_read_file">>

(* a call has raised on a parser that holds the records of an earlier call *)
C8_Witness ==
    /\ pc = "idle"
    /\ result.kind \in Errors
    /\ global_vars # <<>>
    /\ content # <<>>

(***************************************************************************)
(* C9: for every readable file parse_file raises nothing and returns the   *)
(* five keys global_variables, extern_variables, macros, structs,          *)
(* struct_instances in that order, each with an array, which is empty when *)
(* the file has no global match of the category.                           *)
(***************************************************************************)
KeyOrder ==
    <<"global_variables", "extern_variables", "macros", "structs",
      "struct_instances">>

C9_FiveKeysInOrder ==
    /\ (pc = "idle" /\ calls > 0 /\ file_path \in DOMAIN Files) => Returned
    /\ Returned =>
         /\ Len(result.json) = 5
         /\ \A n \in 1..5 :
              /\ result.json[n][1] = KeyOrder[n]
              /\ DOMAIN result.json[n][2] = 1..Len(result.json[n][2])
              /\ GlobalMatches(content, PatternOf[KeyOrder[n]]) = <<>>
                   => result.json[n][2] = <<>>

(***************************************************************************)
(* C10: a line of global-variable shape without its terminating semicolon  *)
(* produces no record in global_variables, whatever lines follow it.       *)
(***************************************************************************)
MissingSemicolonPaths ==
    {p \in DOMAIN Files :
        /\ Len(Files[p]) >= Len(LnGlobalNoSemi)
        /\ SubSeq(Files[p], 1, Len(LnGlobalNoSemi)) = LnGlobalNoSemi}

C10_NoRecordWithoutSemicolon ==
    \A i \in 1..Len(origin.global_variables) :
      ~ /\ origin.global_variables[i].src \in MissingSemicolonPaths
        /\ origin.global_variables[i].off = 0

(***************************************************************************)
(* The text functions the record claims are stated with: a piece of text   *)
(* without its // comments, each running to the end of its line.           *)
(***************************************************************************)
RECURSIVE SkipLine(_)
SkipLine(s) ==
    IF s = <<>> \/ Head(s) = "\n" THEN s ELSE SkipLine(Tail(s))

RECURSIVE WithoutComments(_)
WithoutComments(s) ==
    IF s = <<>> THEN <<>>
    ELSE IF Len(s) >= 2 /\ s[1] = "/" /\ s[2] = "/"
         THEN WithoutComments(SkipLine(s))
    ELSE <<Head(s)>> \o WithoutComments(Tail(s))

(* the pieces cleaned of comments and trimmed, the empty ones dropped *)
CleanPieces(pieces) ==
    SelectSeq([j \in 1..Len(pieces) |-> Strip(WithoutComments(pieces[j]))],
              LAMBDA f : f # <<>>)

(* the match behind record i of category c, in the file it was read from *)
MatchOf(c, i) ==
    MatchAt(Files[origin[c][i].src], TRUE, PatternOf[c], origin[c][i].off)

DocOf(c, i) == Files[origin[c][i].src]

(***************************************************************************)
(* C11: the fields of every struct record are the pieces of the matched    *)
(* field block between semicolons, in source order, each without its //    *)
(* comment and trimmed, the empty ones dropped; no field is the empty      *)
(* string.                                                                 *)
(***************************************************************************)
C11_FieldsCleanNonEmpty ==
    \A i \in 1..Len(structs) :
        /\ Len(origin.structs) = Len(structs)
        /\ structs[i].fields =
               CleanPieces(Split(Group(DocOf("structs", i),
                                       MatchOf("structs", i), 1), ";"))
        /\ \A j \in 1..Len(structs[i].fields) : structs[i].fields[j] # <<>>

(* the text of the line that starts at offset o, without its newline *)
RECURSIVE UpToNewline(_)
UpToNewline(s) ==
    IF s = <<>> \/ Head(s) = "\n" THEN <<>>
    ELSE <<Head(s)>> \o UpToNewline(Tail(s))

LineAt(doc, o) == UpToNewline(Slice(doc, o, Len(doc)))

(* the leading word of s, and s without it *)
RECURSIVE LeadingWord(_)
LeadingWord(s) ==
    IF s = <<>> \/ Head(s) \notin WordChars THEN <<>>
    ELSE <<Head(s)>> \o LeadingWord(Tail(s))

AfterWord(s) == Slice(s, Len(LeadingWord(s)), Len(s))

(* a line `#define NAME rest` without its `#define` *)
AfterDefine(line) == LStrip(Slice(line, 7, Len(line)))

(***************************************************************************)
(* C12: every macro record holds the NAME of its `#define NAME rest` line  *)
(* and, as value, the rest of that line without its trailing // comment    *)
(* and trimmed.                                                            *)
(***************************************************************************)
C12_MacroValueIsRestOfLine ==
    \A i \in 1..Len(macros) :
        LET line == LineAt(DocOf("macros", i), origin.macros[i].off)
        IN  /\ macros[i].name = LeadingWord(AfterDefine(line))
            /\ macros[i].value =
                   Strip(WithoutComments(AfterWord(AfterDefine(line))))

(* whether group n took part in the match m, and the text it matched *)
Matched(m, n) == m.caps[n] # NoGroup

TextOf(doc, m, n) == Slice(doc, m.caps[n][1], m.caps[n][2])

(***************************************************************************)
(* C13: every global-variable record has, as type, the matched type word,  *)
(* with "far " before it exactly when the far qualifier was matched; as    *)
(* name, the matched name word, with the bracketed array size after it     *)
(* exactly when one was matched; as value, the matched initializer         *)
(* trimmed.                                                                *)
(***************************************************************************)
C13_FarTypeAndArrayName ==
    \A i \in 1..Len(global_vars) :
        LET doc == DocOf("global_variables", i)
            m   == MatchOf("global_variables", i)
            rec == global_vars[i]
        IN  /\ m.ok
            /\ rec.type = (IF Matched(m, 1) THEN <<"f", "a", "r", " ">>
                                            ELSE <<>>) \o TextOf(doc, m, 2)
            /\ rec.name = TextOf(doc, m, 3) \o
                            (IF Matched(m, 4) THEN TextOf(doc, m, 4) ELSE <<>>)
            /\ rec.value = Strip(TextOf(doc, m, 5))
            /\ Matched(m, 1) <=> Len(rec.type) = Len(TextOf(doc, m, 2)) + 4
            /\ Matched(m, 4) <=> Len(rec.name) > Len(TextOf(doc, m, 3))

(* a call has returned a far array next to a plain variable *)
C13_Witness ==
    /\ Returned
    /\ \E i, j \in 1..Len(global_vars) :
          /\ Matched(MatchOf("global_variables", i), 1)
          /\ Matched(MatchOf("global_variables", i), 4)
          /\ global_vars[i].name = <<"b", "[", "4", "]">>
          /\ global_vars[i].type = <<"f", "a", "r", " ", "i", "n", "t">>
          /\ ~Matched(MatchOf("global_variables", j), 1)
          /\ ~Matched(MatchOf("global_variables", j), 4)

(***************************************************************************)
(* C17: the value of every macro record comes from the line of its         *)
(* #define: the text matched as value ends no later than that line does.   *)
(***************************************************************************)
C17_ValueFromSameLine ==
    \A i \in 1..Len(macros) :
        LET m       == MatchOf("macros", i)
            off     == origin.macros[i].off
            lineEnd == off + Len(LineAt(DocOf("macros", i), off))
        IN  /\ m.ok
            /\ off <= m.caps[2][1]
            /\ m.caps[2][2] <= lineEnd

StubNames == {"extract_functions", "extract_enums", "extract_typedefs"}

(***************************************************************************)
(* C14: extract_functions, extract_enums and extract_typedefs return the   *)
(* empty sequence whatever the parser has been through, and the content    *)
(* and the five sequences are after the call what they were before it.     *)
(***************************************************************************)
C14_StubsReturnEmpty ==
    stub # NoStub =>
        /\ stub.name \in StubNames
        /\ stub.ret = <<>>
        /\ fields = stub.seen

(* a placeholder was called after a parse that filled the sequences and a  *)
(* parse that failed                                                       *)
C14_Witness ==
    /\ stub.name = "extract_functions"
    /\ result.kind \in Errors
    /\ global_vars # <<>>
    /\ FunctionSpans(content) # <<>>

(***************************************************************************)
(* The maximal runs of a in [lo, hi]: the intervals s..e of positions      *)
(* whose elements all lie in the range and that no in-range neighbour      *)
(* extends, and the runs in array order.                                   *)
(***************************************************************************)
InRange(x, lo, hi) == lo <= x /\ x <= hi

MaximalRuns(a, lo, hi) ==
    {r \in (1..Len(a)) \X (1..Len(a)) :
        /\ r[1] <= r[2]
        /\ \A j \in r[1]..r[2] : InRange(a[j], lo, hi)
        /\ r[1] = 1 \/ ~InRange(a[r[1] - 1], lo, hi)
        /\ r[2] = Len(a) \/ ~InRange(a[r[2] + 1], lo, hi)}

RECURSIVE RunsInOrder(_, _)
RunsInOrder(a, runs) ==
    IF runs = {} THEN <<>>
    ELSE LET first == CHOOSE r \in runs : \A q \in runs : r[1] <= q[1]
         IN  <<SubSeq(a, first[1], first[2])>>
                 \o RunsInOrder(a, runs \ {first})

RECURSIVE Concat(_)
Concat(qs) == IF qs = <<>> THEN <<>> ELSE Head(qs) \o Concat(Tail(qs))

(***************************************************************************)
(* C15: for an ndarray of any length and numeric bounds with lower_bound   *)
(* <= upper_bound, the call returns the maximal runs of in-range elements  *)
(* in array order: each run non-empty, and their concatenation the         *)
(* in-range elements of the array.                                         *)
(***************************************************************************)
C15_ReturnsMaximalRuns ==
    (/\ extracted.called
     /\ extracted.array.nd
     /\ extracted.lower_bound.num
     /\ extracted.upper_bound.num
     /\ extracted.lower_bound.v <= extracted.upper_bound.v) =>
        LET a  == extracted.array.data
            lo == extracted.lower_bound.v
            hi == extracted.upper_bound.v
        IN  /\ extracted.out.kind = "list"
            /\ extracted.out.ret = RunsInOrder(a, MaximalRuns(a, lo, hi))
            /\ \A j \in 1..Len(extracted.out.ret) :
                   extracted.out.ret[j] # <<>>
            /\ Concat(extracted.out.ret) =
                   SelectSeq(a, LAMBDA x : InRange(x, lo, hi))

(* s without the white space around it, in lower case, read off the text:  *)
(* the part between its first and last character that is not white space  *)
Normalised(s) ==
    LET solid == {j \in 1..Len(s) : s[j] \notin SpaceChars}
    IN  IF solid = {} THEN <<>>
        ELSE LET first == CHOOSE j \in solid : \A k \in solid : j <= k
                 last  == CHOOSE j \in solid : \A k \in solid : j >= k
             IN  [j \in 1..(last - first + 1) |-> LowerChar(s[first + j - 1])]

(***************************************************************************)
(* C16: map_c_type_to_simulink raises TypeError for an argument that is    *)
(* not a string; for a string it returns the Simulink type of the table    *)
(* when the text, trimmed and in lower case, is a key, and otherwise the   *)
(* argument itself, untrimmed and in its own case, with a warning.         *)
(***************************************************************************)
C16_MapsOrReturnsOriginal ==
    mapped.called =>
        IF ~mapped.c_type.str THEN mapped.out.kind = "TypeError"
        ELSE /\ mapped.out.kind = "return"
             /\ \A kv \in type_mapping :
                    Normalised(mapped.c_type.text) = kv[1]
                        => mapped.out.ret = kv[2]
             /\ (\A kv \in type_mapping :
                    Normalised(mapped.c_type.text) # kv[1])
                        => /\ mapped.out.ret = mapped.c_type.text
                           /\ mapped.out.warned

(* an unknown type written with white space and capitals came back as it   *)
(* was given                                                               *)
C16_Witness ==
    /\ mapped.called
    /\ mapped.c_type.str
    /\ mapped.c_type.text = <<" ", "x", "U", "8">>
    /\ mapped.out.ret = <<" ", "x", "U", "8">>
    /\ mapped.out.warned

(* the text from offset o on starts with two words, a type and a name,     *)
(* with white space between them                                           *)
TwoWordsAt(doc, o) ==
    LET rest == AfterWord(Slice(doc, o, Len(doc)))
    IN  /\ LeadingWord(Slice(doc, o, Len(doc))) # <<>>
        /\ rest # <<>>
        /\ Head(rest) \in SpaceChars
        /\ LeadingWord(LStrip(rest)) # <<>>

(***************************************************************************)
(* C18: every function span starts at a construct with a return type and   *)
(* a name before the parenthesis; a single identifier followed by a        *)
(* parenthesised list and an opening brace creates no span.                *)
(***************************************************************************)
C18_SpanNeedsTypeAndName ==
    probe # NoProbe =>
        \A j \in 1..Len(probe.spans) :
            TwoWordsAt(content, probe.spans[j].start)

(* the five sequences as the running (or last) parse_file call found them *)
BeforeOf ==
    [global_variables |-> before[2], extern_variables |-> before[3],
     macros |-> before[4], structs |-> before[5],
     struct_instances |-> before[6]]

(* the records category c has gained since the call started, and the       *)
(* offsets of their matches                                                *)
Added(c) == SubSeq(Sequences5[c], Len(BeforeOf[c]) + 1, Len(Sequences5[c]))

AddedOffsets(c) ==
    [j \in 1..(Len(origin[c]) - Len(BeforeOf[c])) |->
        origin[c][Len(BeforeOf[c]) + j].off]

(* the matches of category c in the content that start strictly inside no  *)
(* function span, in source order                                          *)
FileScopeMatchesIn(spans, c) ==
    SelectSeq(FindIter(content, TRUE, PatternOf[c]),
              LAMBDA m : ~StrictlyInside(spans, m.start))

FileScopeMatches(c) == FileScopeMatchesIn(FunctionSpans(content), c)

(***************************************************************************)
(* C19: a parse_file call that has returned appended to every category     *)
(* one record per match of its pattern classified global, in source        *)
(* order, after the records that were there; matches of the same text      *)
(* gave equal records, each its own.                                       *)
(***************************************************************************)
C19_OneRecordPerGlobalMatch ==
    (Returned /\ stub = NoStub) =>
        \A c \in Categories :
            LET kept == FileScopeMatches(c)
            IN  /\ Len(Sequences5[c]) = Len(BeforeOf[c]) + Len(kept)
                /\ SubSeq(Sequences5[c], 1, Len(BeforeOf[c])) = BeforeOf[c]
                /\ AddedOffsets(c) = [j \in 1..Len(kept) |-> kept[j].start]
                /\ \A i, j \in 1..Len(kept) :
                       Slice(content, kept[i].start, kept[i].end)
                           = Slice(content, kept[j].start, kept[j].end)
                       => Added(c)[i] = Added(c)[j]

(* a call has returned two equal records for a declaration written twice *)
C19_Witness ==
    /\ Returned
    /\ Len(FileScopeMatches("global_variables")) = 2
    /\ Len(Added("global_variables")) = 2
    /\ Added("global_variables")[1] = Added("global_variables")[2]
    /\ BeforeOf["global_variables"] # <<>>

(* the array FreshJson files under key c *)
ArrayOf(json, c) == (CHOOSE kv \in Range(json) : kv[1] = c)[2]

(***************************************************************************)
(* C20: when the five extractors have run after _read_file, in whatever    *)
(* order, the content is the file read, each sequence is what it was       *)
(* followed by what parse_file adds to it for that file, and the JSON      *)
(* output is that of those five sequences: those of parse_file's order.    *)
(***************************************************************************)
C20_AnyOrderSameResult ==
    Returned =>
        LET fresh == FreshJson(Files[file_path])
            expected ==
                [c \in Categories |-> BeforeOf[c] \o ArrayOf(fresh, c)]
        IN  /\ content = Files[file_path]
            /\ \A c \in Categories : Sequences5[c] = expected[c]
            /\ result.json =
                   JsonOutput(expected["global_variables"],
                              expected["extern_variables"],
                              expected["macros"], expected["structs"],
                              expected["struct_instances"])

(* the extractors have run in the reverse of parse_file's order, on a      *)
(* parser that held records, and three categories gained some              *)
C20_Witness ==
    /\ Returned
    /\ steps = <<"_read_file", "_extract_struct_instances",
                 "_extract_structs", "_extract_macros",
                 "_extract_extern_variables", "_extract_global_variables",
                 "_create_json_output">>
    /\ BeforeOf["extern_variables"] # <<>>
    /\ \A c \in {"global_variables", "structs", "struct_instances"} :
           Len(Sequences5[c]) > Len(BeforeOf[c])

(***************************************************************************)
(* C26: get_color_palette(n) returns n colors, the i-th of them (from 0)   *)
(* the predefined color number i mod P, P the number of predefined         *)
(* colors; when n <= P no two of the returned colors are the same.         *)
(***************************************************************************)
C26_DistinctColorsUpToP ==
    palette.called =>
        LET n == palette.num_curves
            P == Len(colors)
        IN  /\ Len(palette.ret) = n
            /\ \A i \in 0..(n - 1) : palette.ret[i + 1] = colors[(i % P) + 1]
            /\ n <= P =>
                   \A i, j \in 1..n : i # j => palette.ret[i] # palette.ret[j]

(***************************************************************************)
(* C23: the source text is held for the duration of one parse call only:   *)
(* once parse_file has returned, or has failed, the parser holds no text.  *)
(***************************************************************************)
C23_NoTextAfterReturn ==
    (pc = "idle" /\ calls > 0) => content = <<>>

(***************************************************************************)
(* C22: within one parse call the index of function boundaries is built    *)
(* once, and that one index serves every candidate match of the five       *)
(* extractors: a call that has returned has run function_pattern.finditer  *)
(* one time.                                                               *)
(***************************************************************************)
C22_IndexBuiltOnce ==
    Returned => index_builds = 1

(* the steps of a parse_file call, in the order of lines 69-88 *)
CallSteps ==
    <<"read", "globals", "externs", "macros", "structs", "instances", "json">>

(* how far the call of the parser r has come: 0 before it, n when the step *)
(* CallSteps[n] is the next one, Len(CallSteps) + 1 once it has returned   *)
Position(r) ==
    IF r.pc = "idle"
    THEN IF r.result = NoResult THEN 0 ELSE Len(CallSteps) + 1
    ELSE CHOOSE n \in 1..Len(CallSteps) : CallSteps[n] = r.pc

(* the fields of the parser r without the bookkeeping of the interleaving *)
ParserState(r) == [f \in (DOMAIN r) \ {"overlapped"} |-> r[f]]

(* the parser that parses the file at path p with no other parser around,  *)
(* when its call has come to position n                                    *)
Alone(p, n) ==
    LET doc == PairFiles[p]
        Got(k, recs) == IF n > k THEN recs ELSE <<>>
        gv == Got(2, GlobalRecords(doc, GlobalMatches(doc, global_pattern)))
        ev == Got(3, ExternRecords(doc, GlobalMatches(doc, extern_pattern)))
        mc == Got(4, MacroRecords(doc, GlobalMatches(doc, macro_pattern)))
        st == Got(5, StructRecords(doc, GlobalMatches(doc, struct_pattern)))
        si == Got(6, InstanceRecords(doc, GlobalMatches(doc, instance_pattern)))
    IN  [content |-> IF n > 1 THEN doc ELSE <<>>,
         global_vars |-> gv, extern_vars |-> ev, macros |-> mc,
         structs |-> st, struct_instances |-> si,
         pc |-> IF n > Len(CallSteps) THEN "idle" ELSE CallSteps[n],
         file_path |-> p,
         result |-> IF n > Len(CallSteps)
                    THEN [kind |-> "json", json |-> FreshJson(doc)]
                    ELSE NoResult]

(***************************************************************************)
(* C21: two parse_file calls on two CCodeParser instances over two         *)
(* different files, their steps interleaved in any order: at every step    *)
(* each instance is in the state it would be in had it run alone, so no    *)
(* step of one call reads or writes the other instance, and each call      *)
(* returns the JSON it returns when run alone.                             *)
(***************************************************************************)
C21_InterleavedCallsAsAlone ==
    \A i \in Instances :
        LET n == Position(pair[i])
        IN  /\ n = 0 => ParserState(pair[i]) = ParserState(NewParser)
            /\ n > 0 => ParserState(pair[i]) = Alone(pair[i].file_path, n)

C21_Witness ==
    /\ \A i \in Instances :
           /\ Position(pair[i]) = Len(CallSteps) + 1
           /\ pair[i].overlapped
           /\ pair[i].result.json = FreshJson(PairFiles[pair[i].file_path])
    /\ pair[1].result.json # pair[2].result.json
    /\ pair[1].struct_instances # <<>>
    /\ pair[2].macros # <<>>

(***************************************************************************)
(* C24: every struct_instances record a parse call produces has a record   *)
(* in the global_variables of the same call with the same name, type and   *)
(* value.                                                                  *)
(***************************************************************************)
C24_InstanceIsAlsoGlobal ==
    \A i \in Instances :
        Position(pair[i]) = Len(CallSteps) + 1 =>
            \A k \in 1..Len(pair[i].struct_instances) :
                \E g \in 1..Len(pair[i].global_vars) :
                    LET inst == pair[i].struct_instances[k]
                        glob == pair[i].global_vars[g]
                    IN  /\ glob.name = inst.name
                        /\ glob.type = inst.type
                        /\ glob.value = inst.value

(* the function match starting at offset s has no newline + '}' after it *)
Unclosed(s) == \A k \in s..Len(content) : ~ClosingAt(content, k)

(***************************************************************************)
(* C25: when a function header starts at offset s and no newline + '}'     *)
(* follows s, as after a one-line function, every match that starts after  *)
(* s and before the end of the document is classified local.               *)
(***************************************************************************)
C25_UnclosedFunctionHidesTheRest ==
    probe.o >= 0 =>
        \A j \in 1..Len(probe.spans) :
            LET s == probe.spans[j].start
            IN  (Unclosed(s) /\ s < probe.o /\ probe.o < Len(content))
                    => ~probe.global

(* an offset after the '}' of a one-line function was answered False *)
C25_Witness ==
    /\ probe.o >= 0
    /\ ~probe.global
    /\ probe.o < Len(content)
    /\ \E j \in 1..Len(probe.spans) :
           LET s == probe.spans[j].start
           IN  /\ Unclosed(s)
               /\ \E k \in (s + 1)..probe.o : content[k] = "}"

=============================================================================
